---- MODULE Spec2Model ----
(***************************************************************************)
(* Verification model of the Bhatekpos point-of-sale backend:              *)
(*   app/sale/services.py  SalesService.process_checkout,                  *)
(*                         SalesService.complete_pay_later_sale            *)
(*   app/sale/schemas.py   validate_quantity, CartItemSchema,              *)
(*                         CheckoutSchema                                  *)
(*                         run_checkout_tasks, SalesService.get_pos_data,  *)
(*                         PaymentService, TaxService.get_tax_rate         *)
(*   app/home/routes.py    get_shop_from_request, index, select_shop       *)
(* Money is counted in cents, stock and quantities in whole units.         *)
(***************************************************************************)
EXTENDS Integers, Sequences, FiniteSets, TLC

VARIABLES
    stock,      \* Product.stock, by product id                (persisted)
    sales,      \* Sale rows with their CartItem rows, by id   (persisted)
    threads,    \* sale ids whose run_checkout_tasks thread was started
    result,     \* what the last service call returned or raised
    before,     \* stock, sales and threads as the last service call found them
    payload,    \* the payload last given to CheckoutSchema.load
    loaded,     \* what CheckoutSchema.load made of it
    settings,   \* ShopHomepageSettings row of each shop
    shop_active,\* Shop.is_active, by shop id
    request,    \* the request last given to get_shop_from_request
    resolved,   \* the shop id get_shop_from_request returned, 0 for None
    user,       \* current_user: authenticated, role, business_id, shop_id
    session_shop_id, \* session['shop_id'], 0 when the session has none
    page,       \* what the last index / select_shop call answered
    pricing,    \* the totals the last priced checkout computed
    tax_db,     \* rate of the active Tax row of each shop, in percent
    tax_cache,  \* the lru_cache of get_tax_rate, least recently used first
    lookup,     \* the last get_tax_rate call and the cache as it found it
    conc,       \* two checkouts in flight on one product
    pos_data,   \* what get_pos_data last returned
    chosen      \* the payment method picked from pos_data for a checkout

saleVars   == <<stock, sales, threads, result, before>>
schemaVars == <<payload, loaded>>
homeVars   == <<settings, shop_active, request, resolved>>
userVars   == <<user, session_shop_id, page>>
pricingVars == <<pricing>>
cacheVars  == <<tax_db, tax_cache, lookup>>
concVars   == <<conc>>
posVars    == <<pos_data, chosen>>
auxVars    == <<userVars, pricingVars, cacheVars, concVars, posVars>>
vars       == <<stock, sales, threads, result, before, payload, loaded,
               settings, shop_active, request, resolved, user,
               session_shop_id, page, pricing, tax_db, tax_cache, lookup,
               conc, pos_data, chosen>>

(***************************************************************************)
(* Bounds of the model.                                                    *)
(***************************************************************************)
MaxLines == 2       \* longest cart a caller sends
MaxSales == 1       \* sale rows created in one behaviour
MaxStock == 2       \* largest stock value explored
MaxHits == 1        \* cache hits of get_tax_rate in one behaviour
MaxEvictions == 2   \* cache evictions of get_tax_rate in one behaviour
MaxEdits == 2       \* edits of tax records in one behaviour

None == "None"      \* Python's None

(***************************************************************************)
(* The catalogue: products 1 and 2 belong to shop 1, shop 2 has none, and  *)
(* product id 3 names no row.                                              *)
(***************************************************************************)
Shops      == {1, 2}
Products   == {1, 2}
ProductIds == {1, 2, 3}
ProductShop == [p \in Products |-> 1]
CostPrice   == [p \in Products |-> 400]
TaxRatePercent == [s \in Shops |-> 16]

PaymentModes == {"pay_now", "pay_later", "layaway"}
Methods      == {None, "cash", "mobile", "pay_on_delivery", "card"}
CustomerNames == {None, "", "Ann"}
Quantities   == {-1, 1, 1000}
UnitPrices   == {700}

\* A cart line as the caller sends it; wellformed = FALSE is a line that
\* lacks a field or carries a value int()/Decimal() cannot parse.
WellFormedLines ==
    [product_id : ProductIds, quantity : Quantities, price : UnitPrices,
     wellformed : {TRUE}]
MalformedLine ==
    [product_id |-> 1, quantity |-> 1, price |-> 700, wellformed |-> FALSE]
Lines == WellFormedLines \cup {MalformedLine}
Carts == UNION {[1..n -> Lines] : n \in 0..MaxLines}

(***************************************************************************)
(* Decimal helpers.                                                        *)
(***************************************************************************)
Abs(n) == IF n < 0 THEN -n ELSE n
Sign(n) == IF n < 0 THEN -1 ELSE 1

\* Decimal.to_integral_value(rounding=ROUND_UP) of n/d: away from zero.
CeilAwayFromZero(n, d) ==
    Sign(n) * ((Abs(n) + d - 1) \div d)

\* Mutant: the amount is rounded down to the multiple of five below it.
round_down_to_nearest_five(amount) == (amount \div 500) * 500

\* round_up_to_nearest_five, on an amount in cents.
round_up_to_nearest_five(amount) == CeilAwayFromZero(amount, 500) * 500

\* Decimal.quantize(Decimal('0.01')) of n/d cents: ROUND_HALF_EVEN.
QuantizeCents(n, d) ==
    LET q == Abs(n) \div d
        r == Abs(n) % d
        up == (2 * r > d) \/ (2 * r = d /\ q % 2 = 1)
    IN  Sign(n) * (IF up THEN q + 1 ELSE q)

(***************************************************************************)
(* Python truthiness of an optional string.                                *)
(***************************************************************************)
Truthy(x) == x \notin {None, ""}

(***************************************************************************)
(* What a service call hands back to its caller: the returned dict, or the *)
(* ValueError it raised (ok = FALSE, error = which one, line = the cart    *)
(* line the loop was at, 0 outside the loop).  For complete_pay_later_sale *)
(* sale_id and shop_id are the ones the caller named; payment_mode is the  *)
(* mode of the checkout once the call is inside its try block.             *)
(***************************************************************************)
NoResult ==
    [op |-> "none", ok |-> FALSE, error |-> "none", line |-> 0, sale_id |-> 0,
     shop_id |-> 0, payment_mode |-> None, status |-> None,
     is_paid |-> FALSE, amount_paid |-> 0, receipt_pending |-> FALSE]

Raised(op, error, line) ==
    [NoResult EXCEPT !.op = op, !.error = error, !.line = line]

(***************************************************************************)
(* process_checkout, before the try block.                                 *)
(***************************************************************************)
\* The payment mode / method consistency check.
PaymentCheck(payment_mode, payment_method, customer_name) ==
    IF payment_mode = "pay_now"
    THEN IF payment_method \notin {"cash", "mobile"}
         THEN "invalid_method" ELSE "none"
    ELSE IF payment_mode = "pay_later"
    THEN IF Truthy(payment_method) /\ payment_method # "pay_on_delivery"
         THEN "invalid_method"
         ELSE IF ~Truthy(customer_name)
         THEN "customer_required" ELSE "none"
    ELSE "invalid_mode"

\* Mutant: the auto-set of the method for pay_later is left out.
EffectiveMethodAsGiven(payment_mode, payment_method) == payment_method

\* payment_method = 'pay_on_delivery'  # Auto-set for pay_later
EffectiveMethod(payment_mode, payment_method) ==
    IF payment_mode = "pay_later" THEN "pay_on_delivery" ELSE payment_method

\* The cart normalisation: int()/Decimal() of every field of every line.
NormalizeFails(cart_items) ==
    \E k \in 1..Len(cart_items) : ~cart_items[k].wellformed

Normalize(cart_items) ==
    [k \in 1..Len(cart_items) |->
        [product_id |-> cart_items[k].product_id,
         quantity   |-> cart_items[k].quantity,
         price      |-> cart_items[k].price]]

\* The error raised before the try block, "none" when the call goes on.
EarlyError(cart_items, payment_mode, payment_method, customer_name) ==
    IF cart_items = <<>> THEN "empty_cart"
    ELSE IF PaymentCheck(payment_mode, payment_method, customer_name) # "none"
    THEN PaymentCheck(payment_mode, payment_method, customer_name)
    ELSE IF NormalizeFails(cart_items) THEN "bad_cart_item"
    ELSE "none"

(***************************************************************************)
(* process_checkout, the loop over the cart lines.                         *)
(***************************************************************************)
\* ProductRepository.get_bulk_for_sale: the ids of the shop's products
\* among product_ids; product_map has these keys.
GetBulkForSale(product_ids, shop_id) ==
    {p \in Products : p \in product_ids /\ ProductShop[p] = shop_id}

\* Mutant: the stock check is made whatever the payment mode.
InsufficientStockAnyMode(payment_mode, product_stock, quantity) ==
    product_stock < quantity

\* The stock check, made for pay_now sales only.
InsufficientStock(payment_mode, product_stock, quantity) ==
    payment_mode = "pay_now" /\ product_stock < quantity

\* A stock update is staged for pay_now sales only.
StagesStockUpdate(payment_mode) == payment_mode = "pay_now"

NoStaged ==
    [error |-> "none", line |-> 0, cart_item_data |-> <<>>,
     stock_updates |-> <<>>, subtotal |-> 0, total_cost |-> 0]

\* One pass of the loop body over line k, on the stock values read by the
\* bulk load.
StageLine(acc, item, k, product_map, product_stock, shop_id, payment_mode) ==
    IF item.product_id \notin product_map
    THEN [acc EXCEPT !.error = "product_not_found", !.line = k]
    ELSE IF InsufficientStock(payment_mode, product_stock[item.product_id],
                              item.quantity)
    THEN [acc EXCEPT !.error = "insufficient_stock", !.line = k]
    ELSE LET item_subtotal ==
                 round_up_to_nearest_five(item.quantity * item.price)
             item_cost == item.quantity * CostPrice[item.product_id]
         IN  [acc EXCEPT
                !.subtotal = @ + item_subtotal,
                !.total_cost = @ + item_cost,
                !.cart_item_data = Append(@,
                    [shop_id     |-> shop_id,
                     product_id  |-> item.product_id,
                     quantity    |-> item.quantity,
                     unit_price  |-> item.price,
                     total_price |-> item_subtotal]),
                !.stock_updates =
                    IF StagesStockUpdate(payment_mode)
                    THEN Append(@,
                        [p_id      |-> item.product_id,
                         new_stock |-> product_stock[item.product_id]
                                        - item.quantity])
                    ELSE @]

RECURSIVE StageLines(_, _, _, _, _, _, _)
StageLines(acc, cart_items, k, product_map, product_stock, shop_id, payment_mode) ==
    IF k > Len(cart_items) \/ acc.error # "none" THEN acc
    ELSE StageLines(
            StageLine(acc, cart_items[k], k, product_map, product_stock,
                      shop_id, payment_mode),
            cart_items, k + 1, product_map, product_stock, shop_id,
            payment_mode)

(***************************************************************************)
(* process_checkout, totals, sale creation, stock update, commit.          *)
(***************************************************************************)
\* tax_amount = (subtotal * tax_rate).quantize(Decimal('0.01'))
TaxAmount(subtotal, shop_id) ==
    QuantizeCents(subtotal * TaxRatePercent[shop_id], 100)

SaleStatusOf(payment_mode) ==
    IF payment_mode = "pay_now" THEN "COMPLETED" ELSE "PENDING"

IsPaidOf(payment_mode) == payment_mode = "pay_now"

\* SaleRepository.create_sale: a new Sale row with its CartItem rows.
CreateSale(rows, shop_id, cart_item_data, payment_mode, payment_method) ==
    Append(rows,
        [id             |-> Len(rows) + 1,
         shop_id        |-> shop_id,
         payment_mode   |-> payment_mode,
         payment_method |-> payment_method,
         status         |-> IF payment_mode = "pay_now"
                            THEN "COMPLETED" ELSE "PENDING",
         is_paid        |-> payment_mode = "pay_now",
         cart_items     |-> cart_item_data])

\* The batched UPDATE: one statement per staged row, in order.
RECURSIVE ApplyStockUpdates(_, _)
ApplyStockUpdates(product_stock, stock_updates) ==
    IF stock_updates = <<>> THEN product_stock
    ELSE ApplyStockUpdates(
            [product_stock EXCEPT
                ![Head(stock_updates).p_id] = Head(stock_updates).new_stock],
            Tail(stock_updates))

\* The except branch: db.session.rollback() drops what the session holds.
Rollback(committed, pending) == committed

\* Mutant: each accepted line's stock update is written as the loop goes, so
\* the lines before the failing one stay deducted.
StockWrittenPerLine(product_stock, staged) ==
    ApplyStockUpdates(product_stock, staged.stock_updates)

\* A raise inside the loop: only the local lists cart_item_data and
\* stock_updates were filled, so the rollback leaves the stock as read.
StockAfterFailedLoop(product_stock, staged) == product_stock

\* Mutant: the background task is started whatever the payment mode.
StartsBackgroundTaskAnyMode(payment_mode) == TRUE

\* if payment_mode == 'pay_now': threading.Thread(...).start(), after the
\* commit.
StartsBackgroundTask(payment_mode) == payment_mode = "pay_now"

\* The points of the try block at which the environment can fail.
CheckoutFailures ==
    {"none", "create_sale", "stock_update", "commit", "thread_start"}

\* The try block of process_checkout, from the stock, sale rows and started
\* threads it finds, to what it leaves and hands back.
CheckoutTry(product_stock, rows, started, shop_id, cart, payment_mode, payment_method, fail) ==
    LET cart_items  == Normalize(cart)
        product_ids == {cart_items[k].product_id : k \in 1..Len(cart_items)}
        product_map == GetBulkForSale(product_ids, shop_id)
        staged == StageLines(NoStaged, cart_items, 1, product_map,
                             product_stock, shop_id, payment_mode)
        tax_amount == TaxAmount(staged.subtotal, shop_id)
        total      == staged.subtotal + tax_amount
        sale_status == SaleStatusOf(payment_mode)
        is_paid     == IsPaidOf(payment_mode)
        with_sale == CreateSale(rows, shop_id, staged.cart_item_data,
                                payment_mode, payment_method)
        sale == with_sale[Len(with_sale)]
        updated == IF staged.stock_updates # <<>>
                   THEN ApplyStockUpdates(product_stock, staged.stock_updates)
                   ELSE product_stock
        committed == [stock |-> product_stock, sales |-> rows]
        undone(error, pending) ==
            [stock   |-> Rollback(committed, pending).stock,
             sales   |-> Rollback(committed, pending).sales,
             threads |-> started,
             result  |-> [Raised("checkout", error, 0)
                            EXCEPT !.payment_mode = payment_mode]]
    IN  IF staged.error # "none"
        THEN [stock   |-> StockAfterFailedLoop(product_stock, staged),
              sales   |-> rows,
              threads |-> started,
              result  |-> [Raised("checkout", staged.error, staged.line)
                            EXCEPT !.payment_mode = payment_mode]]
        ELSE IF fail = "create_sale"
        THEN undone("create_sale_failed", committed)
        ELSE IF fail = "stock_update" /\ staged.stock_updates # <<>>
        THEN undone("stock_update_failed",
                    [stock |-> product_stock, sales |-> with_sale])
        ELSE IF fail = "commit"
        THEN undone("commit_failed", [stock |-> updated, sales |-> with_sale])
        ELSE IF fail = "thread_start" /\ StartsBackgroundTask(payment_mode)
        THEN \* raised after db.session.commit(): the rollback finds nothing
             [stock   |-> updated,
              sales   |-> with_sale,
              threads |-> started,
              result  |-> [Raised("checkout", "thread_start_failed", 0)
                            EXCEPT !.payment_mode = payment_mode]]
        ELSE [stock   |-> updated,
              sales   |-> with_sale,
              threads |-> IF StartsBackgroundTask(payment_mode)
                          THEN Append(started, sale.id) ELSE started,
              result  |->
                [op |-> "checkout", ok |-> TRUE, error |-> "none",
                 line |-> 0, sale_id |-> sale.id, shop_id |-> 0,
                 payment_mode |-> payment_mode, status |-> sale_status,
                 is_paid |-> is_paid,
                 amount_paid |-> IF is_paid THEN total ELSE 0,
                 receipt_pending |-> is_paid]]

\* Model caps: a behaviour creates at most MaxSales rows and stock stays
\* within 0..MaxStock on the way up (a negative quantity raises it).
WithinBounds(o) ==
    /\ Len(o.sales) <= MaxSales
    /\ \A p \in Products : o.stock[p] <= MaxStock

Leave(o) ==
    /\ WithinBounds(o)
    /\ stock' = o.stock
    /\ sales' = o.sales
    /\ threads' = o.threads
    /\ result' = o.result
    /\ before' = [stock |-> stock, sales |-> sales, threads |-> threads]

(***************************************************************************)
(* The calls of process_checkout that are tried: every combination of      *)
(* mode, method and customer name on the empty cart and on a one-line      *)
(* cart; every cart in shop 1 under each accepted mode; the one-line carts *)
(* in shop 2; and each failure of the environment on a one-line and on a   *)
(* two-line cart.                                                          *)
(***************************************************************************)
CheckoutCall(shop_id, cart, payment_mode, payment_method, customer_name, fail) ==
    [shop_id |-> shop_id, cart |-> cart, payment_mode |-> payment_mode,
     payment_method |-> payment_method, customer_name |-> customer_name,
     fail |-> fail]

Line(product_id, quantity) ==
    [product_id |-> product_id, quantity |-> quantity, price |-> 700,
     wellformed |-> TRUE]

AcceptedPayments ==
    {<<"pay_now", "cash", None>>, <<"pay_later", None, "Ann">>}

CheckoutCalls ==
    {CheckoutCall(1, cart, m, x, n, "none") :
        cart \in {<<>>, <<Line(1, 1)>>}, m \in PaymentModes, x \in Methods,
        n \in CustomerNames}
    \cup
    {CheckoutCall(1, cart, pay[1], pay[2], pay[3], "none") :
        cart \in Carts, pay \in AcceptedPayments}
    \cup
    {CheckoutCall(2, cart, pay[1], pay[2], pay[3], "none") :
        cart \in {c \in Carts : Len(c) = 1}, pay \in AcceptedPayments}
    \cup
    {CheckoutCall(1, cart, pay[1], pay[2], pay[3], fail) :
        cart \in {<<Line(1, 1)>>, <<Line(1, 1), Line(2, 1)>>},
        pay \in AcceptedPayments, fail \in CheckoutFailures}

ProcessCheckout ==
    /\ \E call \in CheckoutCalls :
          LET early == EarlyError(call.cart, call.payment_mode,
                                  call.payment_method, call.customer_name)
          IN  IF early # "none"
              THEN Leave([stock |-> stock, sales |-> sales,
                          threads |-> threads,
                          result |-> Raised("checkout", early, 0)])
              ELSE Leave(CheckoutTry(stock, sales, threads, call.shop_id,
                            call.cart, call.payment_mode,
                            EffectiveMethod(call.payment_mode,
                                            call.payment_method),
                            call.fail))
    /\ UNCHANGED <<schemaVars, homeVars, auxVars>>

(***************************************************************************)
(* process_checkout, the amounts alone: the loop and the totals on carts   *)
(* of larger quantities and odd prices, under several tax rates.  A rate   *)
(* is counted in hundredths of a percent (1600 is 0.16).                   *)
(***************************************************************************)
\* Mutant: the tax amount is cut to the cent below.
TaxAmountTruncated(subtotal, tax_rate) ==
    Sign(subtotal * tax_rate) * (Abs(subtotal * tax_rate) \div 10000)

\* tax_amount = (subtotal * tax_rate).quantize(Decimal('0.01'))
TaxAmountAt(subtotal, tax_rate) == QuantizeCents(subtotal * tax_rate, 10000)

\* tax_amount, total and profit, from the sums the loop made.
Totals(subtotal, total_cost, tax_rate) ==
    [tax_amount |-> TaxAmountAt(subtotal, tax_rate),
     total      |-> subtotal + TaxAmountAt(subtotal, tax_rate),
     profit     |-> subtotal - total_cost]

PricingQuantities == {1, 2, 15}
PricingPrices == {1, 499, 500, 501, 660}
TaxRates == {0, 125, 1600}
PricingCarts ==
    UNION {[1..n -> [product_id : {1}, quantity : PricingQuantities,
                     price : PricingPrices]] : n \in 1..MaxLines}

NoPricing ==
    [cart |-> <<>>, tax_rate |-> 0, cart_item_data |-> <<>>, subtotal |-> 0,
     total_cost |-> 0, tax_amount |-> 0, total |-> 0, profit |-> 0]

\* The amounts of a pay_later checkout of shop 1 (no stock check stands in
\* the way of a large quantity).
PriceCheckout ==
    /\ \E cart \in PricingCarts, tax_rate \in TaxRates :
          LET staged == StageLines(NoStaged, cart, 1,
                            GetBulkForSale({1}, 1), stock, 1, "pay_later")
              totals == Totals(staged.subtotal, staged.total_cost, tax_rate)
          IN  pricing' =
                [cart |-> cart, tax_rate |-> tax_rate,
                 cart_item_data |-> staged.cart_item_data,
                 subtotal |-> staged.subtotal,
                 total_cost |-> staged.total_cost,
                 tax_amount |-> totals.tax_amount,
                 total |-> totals.total, profit |-> totals.profit]
    /\ UNCHANGED <<saleVars, schemaVars, homeVars, userVars, cacheVars,
                   concVars, posVars>>

(***************************************************************************)
(* TaxService.get_tax_rate under @lru_cache(maxsize=32): the cache is a    *)
(* sequence of entries, the least recently used first.                     *)
(***************************************************************************)
maxsize == 32

\* Shop ids looked up: one more than the cache holds.
CacheShops == 1..(maxsize + 1)

CachedKeys(cache) == {cache[i].shop_id : i \in 1..Len(cache)}

PositionOf(cache, shop_id) ==
    CHOOSE i \in 1..Len(cache) : cache[i].shop_id = shop_id

\* Tax.query.filter_by(shop_id=..., is_active=True, is_deleted=False)
\* .first(), then float(tax.rate if tax else 0.0)
ActiveRate(db, shop_id) ==
    IF shop_id \in DOMAIN db THEN db[shop_id] ELSE 0

\* Mutant: a hit leaves the entry where it is (first in, first out).
TouchNot(cache, i) == cache

\* A hit: the entry becomes the most recently used.
Touch(cache, i) ==
    Append(SubSeq(cache, 1, i - 1) \o SubSeq(cache, i + 1, Len(cache)),
           cache[i])

\* A miss: the new entry is stored, the least recently used one dropped
\* when the cache is full.
Insert(cache, entry) ==
    IF Len(cache) >= maxsize THEN Append(Tail(cache), entry)
    ELSE Append(cache, entry)

\* One call of the cached function.
CachedGetTaxRate(cache, db, shop_id) ==
    IF shop_id \in CachedKeys(cache)
    THEN [hit   |-> TRUE,
          value |-> cache[PositionOf(cache, shop_id)].rate,
          cache |-> Touch(cache, PositionOf(cache, shop_id))]
    ELSE [hit   |-> FALSE,
          value |-> ActiveRate(db, shop_id),
          cache |-> Insert(cache, [shop_id |-> shop_id,
                                   rate |-> ActiveRate(db, shop_id)])]

NoLookup ==
    [op |-> "none", shop_id |-> 0, hit |-> FALSE, value |-> 0,
     cache_before |-> <<>>, hits |-> 0, evictions |-> 0, edits |-> 0,
     clock |-> 0, last_access |-> [s \in CacheShops |-> 0], turn |-> 0]

\* The shop ids a call is tried with: every cached one, and the lowest id
\* that is not cached.
NextNewShop(cache) ==
    CHOOSE k \in CacheShops \ CachedKeys(cache) :
        \A j \in CacheShops \ CachedKeys(cache) : k <= j

LookupKeys(cache) == CachedKeys(cache) \cup {NextNewShop(cache)}

GetTaxRate ==
    /\ \E shop_id \in LookupKeys(tax_cache) :
          LET r == CachedGetTaxRate(tax_cache, tax_db, shop_id)
              evicts == ~r.hit /\ Len(tax_cache) = maxsize
          IN  /\ r.hit => lookup.hits < MaxHits
              /\ evicts => lookup.evictions < MaxEvictions
              /\ tax_cache' = r.cache
              /\ lookup' =
                   [lookup EXCEPT
                      !.op = "get_tax_rate", !.shop_id = shop_id,
                      !.hit = r.hit, !.value = r.value,
                      !.cache_before = tax_cache,
                      !.hits = IF r.hit THEN @ + 1 ELSE @,
                      !.evictions = IF evicts THEN @ + 1 ELSE @,
                      !.clock = @ + 1,
                      !.last_access[shop_id] = lookup.clock + 1]
    /\ UNCHANGED <<saleVars, schemaVars, homeVars, userVars, pricingVars,
                   tax_db, concVars, posVars>>

\* tax_rate = Decimal(str(Tax.get_tax_rate(shop_id))) in process_checkout:
\* the rate of the shop, through the cache.  turn alternates with every
\* checkout, so that a checkout is a step even when it is a cache hit on
\* the rate the last checkout got.
CheckoutTaxRate(shop_id) ==
    /\ LET r == CachedGetTaxRate(tax_cache, tax_db, shop_id)
       IN  /\ tax_cache' = r.cache
           /\ lookup' = [lookup EXCEPT
                           !.op = "checkout", !.shop_id = shop_id,
                           !.hit = r.hit, !.value = r.value,
                           !.turn = 1 - @]
    /\ UNCHANGED <<saleVars, schemaVars, homeVars, userVars, pricingVars,
                   tax_db, concVars, posVars>>

\* An edit of the rate of a shop's active Tax row; no write path touches
\* the cache.
EditedRates == {0, 8, 16}

EditTax ==
    /\ lookup.edits < MaxEdits
    /\ \E shop_id \in Shops, rate \in EditedRates :
          /\ rate # tax_db[shop_id]
          /\ tax_db' = [tax_db EXCEPT ![shop_id] = rate]
    /\ lookup' = [lookup EXCEPT !.edits = @ + 1]
    /\ UNCHANGED <<saleVars, schemaVars, homeVars, userVars, pricingVars,
                   tax_cache, concVars, posVars>>

(***************************************************************************)
(* process_checkout, two pay_now calls in flight on product 1: each call   *)
(* is cut at its one point of interference, between the bulk load with     *)
(* the loop over the cart (the stock is read and checked, the update       *)
(* staged) and the sale creation with the batched UPDATE and the commit.   *)
(* No lock is taken and the UPDATE carries no condition on the stock.      *)
(***************************************************************************)
\* Mutant: the UPDATE deducts the quantity from the row as it finds it.
StockWrittenRelative(current_stock, new_stock, quantity) ==
    current_stock - quantity

\* .values(stock=bindparam('new_stock')): the row takes the staged value.
StockWritten(current_stock, new_stock, quantity) == new_stock

ConcCalls == {1, 2}
\* Stocks and quantities of the two calls: one more than the stock explored,
\* so that a call can ask for more than there is.
ConcStocks == 0..(MaxStock + 1)
ConcQuantities == 1..(MaxStock + 1)

NoCall == [pc |-> "start", quantity |-> 0, read_stock |-> 0, new_stock |-> 0]

NoConc ==
    [stock |-> 0, initial |-> 0, calls |-> [i \in ConcCalls |-> NoCall],
     overlap |-> FALSE, last |-> 0]

\* get_bulk_for_sale and the loop: the stock is read, checked and the new
\* value staged.
ConcLoad(i) ==
    /\ conc.calls[i].pc = "start"
    /\ \E quantity \in ConcQuantities :
          conc' =
            [conc EXCEPT
               !.calls[i] =
                  IF InsufficientStock("pay_now", conc.stock, quantity)
                  THEN [pc |-> "rejected", quantity |-> quantity,
                        read_stock |-> conc.stock, new_stock |-> 0]
                  ELSE [pc |-> "staged", quantity |-> quantity,
                        read_stock |-> conc.stock,
                        new_stock |-> conc.stock - quantity],
               !.overlap = @ \/ \E j \in ConcCalls \ {i} :
                                    conc.calls[j].pc = "staged"]
    /\ UNCHANGED <<saleVars, schemaVars, homeVars, userVars, pricingVars,
                   cacheVars, posVars>>

\* create_sale, the batched UPDATE and db.session.commit().
ConcCommit(i) ==
    /\ conc.calls[i].pc = "staged"
    /\ conc' =
         [conc EXCEPT
            !.stock = StockWritten(conc.stock, conc.calls[i].new_stock,
                                   conc.calls[i].quantity),
            !.calls[i].pc = "committed",
            !.last = i]
    /\ UNCHANGED <<saleVars, schemaVars, homeVars, userVars, pricingVars,
                   cacheVars, posVars>>

(***************************************************************************)
(* SalesService.get_pos_data and PaymentService.get_available_methods,     *)
(* and a pay_now checkout paid with a method picked from what they offer.  *)
(***************************************************************************)
\* The codes of the methods PaymentService.get_available_methods returns.
get_available_methods(shop_id) == {"cash", "card", "transfer"}

NoPosData ==
    [ok |-> FALSE, shop_id |-> 0, payment_modes |-> {},
     payment_methods |-> {}]

\* get_pos_data: Shop.query.get_or_404, then the dict (the parts read by
\* the checkout screen); any exception becomes ValueError.
get_pos_data(shop_id) ==
    IF shop_id \notin Shops THEN [NoPosData EXCEPT !.shop_id = shop_id]
    ELSE [ok |-> TRUE, shop_id |-> shop_id,
          payment_modes |-> {"pay_now", "pay_later"},
          payment_methods |-> get_available_methods(shop_id)]

GetPosData ==
    /\ \E shop_id \in Shops \cup {3} : pos_data' = get_pos_data(shop_id)
    /\ UNCHANGED <<saleVars, schemaVars, homeVars, userVars, pricingVars,
                   cacheVars, concVars, chosen>>

OfferedCarts ==
    {<<Line(1, 1)>>, <<Line(2, 1)>>, <<Line(1, 1), Line(2, 1)>>}

\* process_checkout of the shop of pos_data, pay_now, with an offered
\* method.
CheckoutOffered ==
    /\ pos_data.ok
    /\ \E payment_method \in pos_data.payment_methods, cart \in OfferedCarts :
          LET early == EarlyError(cart, "pay_now", payment_method, None)
          IN  /\ chosen' = payment_method
              /\ IF early # "none"
                 THEN Leave([stock |-> stock, sales |-> sales,
                             threads |-> threads,
                             result |-> Raised("checkout", early, 0)])
                 ELSE Leave(CheckoutTry(stock, sales, threads,
                               pos_data.shop_id, cart, "pay_now",
                               EffectiveMethod("pay_now", payment_method),
                               "none"))
    /\ UNCHANGED <<schemaVars, homeVars, userVars, pricingVars, cacheVars,
                   concVars, pos_data>>

(***************************************************************************)
(* complete_pay_later_sale.                                                *)
(***************************************************************************)
\* SaleRepository.get_sale_with_items: the index of the sale row with this
\* id in this shop, 0 for None.
GetSaleWithItems(rows, sale_id, shop_id) ==
    IF \E i \in 1..Len(rows) : rows[i].id = sale_id /\ rows[i].shop_id = shop_id
    THEN CHOOSE i \in 1..Len(rows) :
            rows[i].id = sale_id /\ rows[i].shop_id = shop_id
    ELSE 0

\* Mutant: only the method and the existence of the sale are checked.
CompletionCheckExistsOnly(payment_method, found, is_paid, sale_method) ==
    IF payment_method \notin {"cash", "mobile"} THEN "invalid_method"
    ELSE IF ~found THEN "sale_not_found"
    ELSE "none"

\* The checks before the try block, on the row found (found = FALSE: None).
CompletionCheck(payment_method, found, is_paid, sale_method) ==
    IF payment_method \notin {"cash", "mobile"} THEN "invalid_method"
    ELSE IF ~found THEN "sale_not_found"
    ELSE IF is_paid THEN "already_paid"
    ELSE IF sale_method # "pay_on_delivery" THEN "not_pay_later"
    ELSE "none"

\* The loop over sale.cart_items: check, then product.stock -= quantity on
\* the session's product object, line by line.
RECURSIVE DeductLines(_, _, _)
DeductLines(acc, cart_items, k) ==
    IF k > Len(cart_items) \/ acc.error # "none" THEN acc
    ELSE LET cart_item == cart_items[k]
         IN  IF acc.stock[cart_item.product_id] < cart_item.quantity
             THEN [acc EXCEPT !.error = "insufficient_stock", !.line = k]
             ELSE DeductLines(
                    [acc EXCEPT !.stock[cart_item.product_id] =
                                    @ - cart_item.quantity],
                    cart_items, k + 1)

\* SaleRepository.update_sale_payment_status.
UpdateSalePaymentStatus(sale, is_paid) ==
    [sale EXCEPT !.is_paid = is_paid,
                 !.status = IF is_paid THEN "COMPLETED" ELSE "PENDING"]

RECURSIVE SumTotalPrice(_)
SumTotalPrice(cart_items) ==
    IF cart_items = <<>> THEN 0
    ELSE Head(cart_items).total_price + SumTotalPrice(Tail(cart_items))

\* Sale.total, as create_sale stores it: subtotal plus tax.
SaleTotal(sale) ==
    SumTotalPrice(sale.cart_items)
        + TaxAmount(SumTotalPrice(sale.cart_items), sale.shop_id)

\* Mutant: the sale keeps the method it was created with.
PaidMethodKept(sale_method, payment_method) == sale_method

\* sale.payment_method = payment_method: the method actually used.
PaidMethod(sale_method, payment_method) == payment_method

CompletionFailures == {"none", "update_status", "commit", "thread_start"}

CompleteTry(product_stock, rows, started, i, shop_id, payment_method, fail) ==
    LET sale == rows[i]
        deducted == DeductLines([error |-> "none", line |-> 0,
                                 stock |-> product_stock],
                                sale.cart_items, 1)
        paid == [UpdateSalePaymentStatus(sale, TRUE)
                    EXCEPT !.payment_method =
                              PaidMethod(sale.payment_method, payment_method)]
        with_paid == [rows EXCEPT ![i] = paid]
        committed == [stock |-> product_stock, sales |-> rows]
        undone(error, line, pending) ==
            [stock   |-> Rollback(committed, pending).stock,
             sales   |-> Rollback(committed, pending).sales,
             threads |-> started,
             result  |-> [Raised("complete", error, line)
                            EXCEPT !.sale_id = sale.id, !.shop_id = shop_id]]
    IN  IF deducted.error # "none"
        THEN undone(deducted.error, deducted.line,
                    [stock |-> deducted.stock, sales |-> rows])
        ELSE IF fail = "update_status"
        THEN undone("update_status_failed", 0,
                    [stock |-> deducted.stock, sales |-> rows])
        ELSE IF fail = "commit"
        THEN undone("commit_failed", 0,
                    [stock |-> deducted.stock, sales |-> with_paid])
        ELSE IF fail = "thread_start"
        THEN [stock   |-> deducted.stock,
              sales   |-> with_paid,
              threads |-> started,
              result  |-> [Raised("complete", "thread_start_failed", 0)
                            EXCEPT !.sale_id = sale.id, !.shop_id = shop_id]]
        ELSE [stock   |-> deducted.stock,
              sales   |-> with_paid,
              threads |-> Append(started, paid.id),
              result  |->
                [op |-> "complete", ok |-> TRUE, error |-> "none",
                 line |-> 0, sale_id |-> paid.id, shop_id |-> shop_id,
                 payment_mode |-> None, status |-> paid.status,
                 is_paid |-> paid.is_paid, amount_paid |-> SaleTotal(paid),
                 receipt_pending |-> FALSE]]

CompletePayLaterSale ==
    /\ \E sale_id \in 1..(MaxSales + 1), shop_id \in Shops,
          payment_method \in Methods :
          LET i == GetSaleWithItems(sales, sale_id, shop_id)
              check == IF i = 0
                       THEN CompletionCheck(payment_method, FALSE, FALSE, None)
                       ELSE CompletionCheck(payment_method, TRUE,
                                sales[i].is_paid, sales[i].payment_method)
          IN  IF check # "none"
              THEN Leave([stock |-> stock, sales |-> sales,
                          threads |-> threads,
                          result |-> [Raised("complete", check, 0)
                                        EXCEPT !.sale_id = sale_id,
                                               !.shop_id = shop_id]])
              ELSE \E fail \in CompletionFailures :
                      Leave(CompleteTry(stock, sales, threads, i, shop_id,
                                        payment_method, fail))
    /\ UNCHANGED <<schemaVars, homeVars, auxVars>>

(***************************************************************************)
(* schemas.py: validate_quantity, CartItemSchema and CheckoutSchema.        *)
(***************************************************************************)
\* validate_quantity: the ValidationError raised, "none" when it passes.
validate_quantity(value) ==
    IF value <= 0 THEN "Quantity must be greater than zero."
    ELSE IF value > 999 THEN "Quantity exceeds maximum allowed (999)."
    ELSE "none"

\* CartItemSchema: the fields of one cart item that fail.
CartItemErrors(item) ==
    {f \in {"product_id", "quantity", "price"} :
        \/ f = "product_id" /\ item.product_id < 1
        \/ f = "quantity" /\ validate_quantity(item.quantity) # "none"
        \/ f = "price" /\ item.price < 0}

\* CheckoutSchema, the field-level pass: the fields that fail.
CheckoutFieldErrors(data) ==
    {f \in {"payment_mode", "payment_method", "cart_items"} :
        \/ f = "payment_mode"
            /\ data.payment_mode \notin {"pay_now", "pay_later"}
        \/ f = "payment_method"
            /\ data.payment_method # None
            /\ data.payment_method \notin {"cash", "mobile", "pay_on_delivery"}
        \/ f = "cart_items"
            /\ \/ Len(data.cart_items) < 1
               \/ \E k \in 1..Len(data.cart_items) :
                     CartItemErrors(data.cart_items[k]) # {}}

\* Mutant: the pay_later branch does not ask for a customer name.
validate_payment_fields_no_name(data) ==
    IF data.payment_mode = "pay_now"
    THEN IF ~Truthy(data.payment_method) THEN "method_required"
         ELSE IF data.payment_method \notin {"cash", "mobile"}
         THEN "method_not_cash_or_mobile"
         ELSE "none"
    ELSE IF data.payment_mode = "pay_later"
    THEN IF Truthy(data.payment_method)
            /\ data.payment_method # "pay_on_delivery"
         THEN "method_not_pay_on_delivery"
         ELSE "none"
    ELSE "none"

\* CheckoutSchema.validate_payment_fields: the ValidationError raised.
validate_payment_fields(data) ==
    IF data.payment_mode = "pay_now"
    THEN IF ~Truthy(data.payment_method) THEN "method_required"
         ELSE IF data.payment_method \notin {"cash", "mobile"}
         THEN "method_not_cash_or_mobile"
         ELSE "none"
    ELSE IF data.payment_mode = "pay_later"
    THEN IF ~Truthy(data.customer_name) THEN "customer_required"
         ELSE IF Truthy(data.payment_method)
                 /\ data.payment_method # "pay_on_delivery"
         THEN "method_not_pay_on_delivery"
         ELSE "none"
    ELSE "none"

\* What validate_payment_fields leaves in data when it passes.
FilledByValidator(data) ==
    IF data.payment_mode = "pay_later" /\ ~Truthy(data.payment_method)
    THEN [data EXCEPT !.payment_method = "pay_on_delivery"]
    ELSE data

\* CheckoutSchema.set_default_payment_method (post_load).
set_default_payment_method(data) ==
    IF data.payment_mode = "pay_later" /\ ~Truthy(data.payment_method)
    THEN [data EXCEPT !.payment_method = "pay_on_delivery"]
    ELSE data

\* CheckoutSchema().load(data): field validators, then the schema validator
\* (skipped on field errors), then post_load.
CheckoutSchemaLoad(data) ==
    IF CheckoutFieldErrors(data) # {}
    THEN [valid |-> FALSE, error |-> "field_errors",
          payment_method |-> data.payment_method]
    ELSE IF validate_payment_fields(data) # "none"
    THEN [valid |-> FALSE, error |-> validate_payment_fields(data),
          payment_method |-> data.payment_method]
    ELSE [valid |-> TRUE, error |-> "none",
          payment_method |->
            set_default_payment_method(FilledByValidator(data)).payment_method]

SchemaQuantities == {-1, 0, 1, 999, 1000}
SchemaCarts ==
    UNION {[1..n -> [product_id : {1}, quantity : SchemaQuantities,
                     price : {700}]] : n \in 0..MaxLines}
Payloads ==
    [payment_mode : PaymentModes \cup {None}, payment_method : Methods,
     customer_name : CustomerNames, cart_items : SchemaCarts]

NoPayload == [payment_mode |-> None, payment_method |-> None,
              customer_name |-> None, cart_items |-> <<>>]
NoLoaded  == [valid |-> FALSE, error |-> "none", payment_method |-> None]

Load ==
    /\ \E data \in Payloads :
          /\ payload' = data
          /\ loaded' = CheckoutSchemaLoad(data)
    /\ UNCHANGED <<saleVars, homeVars, auxVars>>

(***************************************************************************)
(* home/routes.py: get_shop_from_request.  A host is the sequence of its   *)
(* dot-separated labels, <<>> for the empty Host header.                   *)
(***************************************************************************)
HomeShops == {1, 2}
Slug == [s \in HomeShops |-> IF s = 1 THEN "shop1" ELSE "shop2"]

Domains == {<<"store", "com">>, <<"shop1", "example", "com">>}
Subdomains == {"shop1", "www"}
NoDomain == <<None>>        \* a NULL custom_domain: equal to no host
SettingsRows ==
    [exists : {TRUE}, custom_domain : Domains \cup {NoDomain},
     subdomain : Subdomains \cup {None}, is_active : BOOLEAN]
NoSettings ==
    [exists |-> FALSE, custom_domain |-> NoDomain, subdomain |-> None,
     is_active |-> FALSE]
Hosts == Domains \cup {<<>>, <<"localhost">>, <<"www", "example", "com">>}
Requests ==
    [host : Hosts, shop_id : {0, 1, 2},        \* 0: no shop_id parameter
     shop_slug : {None, "shop1", "shop2"}]

\* filter_by(custom_domain=host, is_active=True): the shops of the rows.
ByCustomDomain(rows, host) ==
    {s \in HomeShops : rows[s].exists /\ rows[s].custom_domain = host
                        /\ rows[s].is_active}

\* filter_by(subdomain=subdomain, is_active=True): the shops of the rows.
BySubdomain(rows, subdomain) ==
    {s \in HomeShops : rows[s].exists /\ rows[s].subdomain = subdomain
                        /\ rows[s].is_active}

\* The hosts that carry a candidate tenant subdomain.
HasTenantLabel(host) ==
    Len(host) >= 2 /\ host[1] \notin {"www", "app", "admin", "api"}

\* Shop.query.get(shop_id), kept when its homepage settings are active.
ByShopId(rows, shop_id) ==
    {s \in HomeShops : shop_id # 0 /\ s = shop_id /\ rows[s].exists
                        /\ rows[s].is_active}

\* Shop.query.filter_by(slug=shop_slug, is_active=True)
BySlug(active, shop_slug) ==
    {s \in HomeShops : shop_slug # None /\ Slug[s] = shop_slug /\ active[s]}

\* Mutant: the shop_id parameter is looked at before the Host header.
get_shop_from_request_id_first(rows, active, req) ==
    IF ByShopId(rows, req.shop_id) # {}
    THEN ByShopId(rows, req.shop_id)
    ELSE IF ByCustomDomain(rows, req.host) # {}
    THEN ByCustomDomain(rows, req.host)
    ELSE IF HasTenantLabel(req.host) /\ BySubdomain(rows, req.host[1]) # {}
    THEN BySubdomain(rows, req.host[1])
    ELSE IF BySlug(active, req.shop_slug) # {}
    THEN BySlug(active, req.shop_slug)
    ELSE {0}

\* The shops get_shop_from_request can return ({0}: None); .first() takes
\* any of the rows a query matches.
get_shop_from_request(rows, active, req) ==
    IF ByCustomDomain(rows, req.host) # {}
    THEN ByCustomDomain(rows, req.host)
    ELSE IF HasTenantLabel(req.host) /\ BySubdomain(rows, req.host[1]) # {}
    THEN BySubdomain(rows, req.host[1])
    ELSE IF ByShopId(rows, req.shop_id) # {}
    THEN ByShopId(rows, req.shop_id)
    ELSE IF BySlug(active, req.shop_slug) # {}
    THEN BySlug(active, req.shop_slug)
    ELSE {0}

NoRequest == [host |-> <<>>, shop_id |-> 0, shop_slug |-> None]

GetShopFromRequest ==
    /\ \E req \in Requests :
          /\ request' = req
          /\ resolved' \in get_shop_from_request(settings, shop_active, req)
    /\ UNCHANGED <<saleVars, schemaVars, settings, shop_active, auxVars>>

(***************************************************************************)
(* home/routes.py: index and select_shop.  Shop ids 1 and 2 name Shop      *)
(* rows, 3 names none; business id 1 names a Business row, 2 names none;   *)
(* 0 stands for an empty shop_id or business_id.                           *)
(***************************************************************************)
Roles == {"superadmin", "tenant", "admin", "cashier", "other"}
UserShopIds == {0, 1, 2, 3}
BusinessIds == {0, 1, 2}
Businesses == {1}
ShopBusiness == [s \in HomeShops |-> s]

AnonymousUser ==
    [authenticated |-> FALSE, role |-> "anonymous", business_id |-> 0,
     shop_id |-> 0]
Users ==
    {AnonymousUser} \cup
    [authenticated : {TRUE}, role : Roles, business_id : BusinessIds,
     shop_id : UserShopIds]
NoUser == AnonymousUser

is_superadmin(u) == u.role = "superadmin"
is_tenant(u) == u.role = "tenant"
is_admin(u) == u.role = "admin"
is_cashier(u) == u.role = "cashier"

\* The context index starts from.
DefaultContext ==
    [current_shop |-> 0, business |-> 0, is_super_admin |-> FALSE,
     create_business |-> FALSE, select_shop |-> FALSE]

NoPage ==
    [op |-> "none", template |-> "none", ok |-> FALSE, error |-> "none",
     target |-> 0, context |-> DefaultContext, wrote |-> FALSE,
     shop_id_before |-> 0, session_before |-> 0]

\* Mutant: the custom homepage is served to any visitor.
ServesCustomHomepageToAll(requested_shop, authenticated) ==
    requested_shop # 0

\* if requested_shop and not current_user.is_authenticated
ServesCustomHomepage(requested_shop, authenticated) ==
    requested_shop # 0 /\ ~authenticated

\* Mutant: the tenant's shop is only checked for existence.
TenantShopCheckExistsOnly(shop_id, business) ==
    IF shop_id \notin HomeShops THEN "missing" ELSE "ok"

\* The tenant branch, on a user with a shop_id: Shop.query.get, then the
\* comparison of the shop's business with the tenant's.
TenantShopCheck(shop_id, business) ==
    IF shop_id \notin HomeShops THEN "missing"
    ELSE IF ShopBusiness[shop_id] # business THEN "other_business"
    ELSE "ok"

\* What a branch of index leaves: the context, the user's shop_id and
\* whether db.session.commit() was called.
Kept(context, u) ==
    [context |-> context, shop_id |-> u.shop_id, wrote |-> FALSE]

Cleared(context) ==
    [context |-> [context EXCEPT !.select_shop = TRUE], shop_id |-> 0,
     wrote |-> TRUE]

TenantBranch(u) ==
    IF u.business_id = 0
    THEN Kept([DefaultContext EXCEPT !.create_business = TRUE], u)
    ELSE IF u.business_id \notin Businesses
    THEN Kept([DefaultContext EXCEPT !.create_business = TRUE], u)
    ELSE LET with_business ==
                 [DefaultContext EXCEPT !.business = u.business_id]
         IN  IF u.shop_id = 0 THEN Kept(with_business, u)
             ELSE IF TenantShopCheck(u.shop_id, u.business_id) # "ok"
             THEN Cleared(with_business)
             ELSE Kept([with_business EXCEPT !.current_shop = u.shop_id], u)

StaffBranch(u) ==
    IF u.shop_id = 0
    THEN Kept([DefaultContext EXCEPT !.select_shop = TRUE], u)
    ELSE IF u.shop_id \notin HomeShops
    THEN Cleared(DefaultContext)
    ELSE LET with_shop == [DefaultContext EXCEPT !.current_shop = u.shop_id]
         IN  IF ShopBusiness[u.shop_id] # 0
                /\ ShopBusiness[u.shop_id] \in Businesses
             THEN Kept([with_shop EXCEPT
                            !.business = ShopBusiness[u.shop_id]], u)
             ELSE Kept(with_shop, u)

\* index, once get_shop_from_request has returned requested_shop.
IndexOutcome(u, requested_shop) ==
    IF ServesCustomHomepage(requested_shop, u.authenticated)
    THEN [template |-> "homepage/custom_shop.html",
          context |-> [DefaultContext EXCEPT !.current_shop = requested_shop],
          shop_id |-> u.shop_id, wrote |-> FALSE]
    ELSE LET branch ==
                 IF ~u.authenticated THEN Kept(DefaultContext, u)
                 ELSE IF is_superadmin(u)
                 THEN Kept([DefaultContext EXCEPT !.is_super_admin = TRUE], u)
                 ELSE IF is_tenant(u) THEN TenantBranch(u)
                 ELSE IF is_admin(u) \/ is_cashier(u) THEN StaffBranch(u)
                 ELSE Kept(DefaultContext, u)
         IN  [template |-> "home.html", context |-> branch.context,
              shop_id |-> branch.shop_id, wrote |-> branch.wrote]

IndexRequests ==
    {req \in Requests :
        /\ req.host \in {<<>>, <<"store", "com">>}
        /\ req.shop_id \in {0, 1}}

Index ==
    /\ \E req \in IndexRequests :
          \E shop \in get_shop_from_request(settings, shop_active, req) :
             LET o == IndexOutcome(user, shop)
             IN  /\ request' = req
                 /\ resolved' = shop
                 /\ user' = [user EXCEPT !.shop_id = o.shop_id]
                 /\ page' = [NoPage EXCEPT
                                !.op = "index", !.ok = TRUE,
                                !.template = o.template,
                                !.context = o.context, !.wrote = o.wrote,
                                !.shop_id_before = user.shop_id,
                                !.session_before = session_shop_id]
    /\ UNCHANGED <<saleVars, schemaVars, settings, shop_active,
                   session_shop_id, pricingVars, cacheVars, concVars, posVars>>

\* Mutant: the shop's business is not compared with the caller's.
SelectShopCheckNoBusiness(u, shop_id) ==
    IF ~u.authenticated \/ ~(is_admin(u) \/ is_cashier(u) \/ is_tenant(u))
    THEN "unauthorized"
    ELSE IF shop_id \notin HomeShops THEN "not_found"
    ELSE "none"

\* The checks of select_shop, "none" when the shop is selected.
SelectShopCheck(u, shop_id) ==
    IF ~u.authenticated \/ ~(is_admin(u) \/ is_cashier(u) \/ is_tenant(u))
    THEN "unauthorized"
    ELSE IF shop_id \notin HomeShops THEN "not_found"
    ELSE IF u.business_id # 0 /\ ShopBusiness[shop_id] # u.business_id
    THEN "other_business"
    ELSE "none"

SelectShop ==
    /\ \E shop_id \in {1, 2, 3} :
          LET check == SelectShopCheck(user, shop_id)
              answer == [NoPage EXCEPT
                            !.op = "select_shop", !.target = shop_id,
                            !.error = check,
                            !.shop_id_before = user.shop_id,
                            !.session_before = session_shop_id]
          IN  IF check # "none"
              THEN /\ page' = [answer EXCEPT
                                 !.template = IF check = "not_found"
                                              THEN "404" ELSE "home.index"]
                   /\ UNCHANGED <<user, session_shop_id>>
              ELSE /\ session_shop_id' = shop_id
                   /\ user' = [user EXCEPT !.shop_id = shop_id]
                   /\ page' = [answer EXCEPT
                                 !.ok = TRUE, !.wrote = TRUE,
                                 !.template = "sales.sales_screen"]
    /\ UNCHANGED <<saleVars, schemaVars, homeVars, pricingVars, cacheVars,
                   concVars, posVars>>

(***************************************************************************)
(* Specifications: the sale service, on any stock within the bound and no  *)
(* sale; the checkout schema; the shop resolution, on any settings table.  *)
(***************************************************************************)
SaleIdle ==
    /\ sales = <<>>
    /\ threads = <<>>
    /\ result = NoResult
    /\ before = [stock |-> stock, sales |-> sales, threads |-> threads]

SchemaIdle == payload = NoPayload /\ loaded = NoLoaded

HomeIdle == request = NoRequest /\ resolved = 0

UserIdle == user = NoUser /\ session_shop_id = 0 /\ page = NoPage

PricingIdle == pricing = NoPricing

CacheIdle ==
    /\ tax_db = [s \in Shops |-> TaxRatePercent[s]]
    /\ tax_cache = <<>>
    /\ lookup = NoLookup

ConcIdle == conc = NoConc

PosIdle == pos_data = NoPosData /\ chosen = None

AuxIdle == UserIdle /\ PricingIdle /\ CacheIdle /\ ConcIdle /\ PosIdle

Init ==
    /\ stock \in [Products -> 0..MaxStock]
    /\ SaleIdle
    /\ SchemaIdle
    /\ settings = [s \in HomeShops |-> NoSettings]
    /\ shop_active = [s \in HomeShops |-> TRUE]
    /\ HomeIdle
    /\ AuxIdle

Next ==
    \/ ProcessCheckout
    \/ CompletePayLaterSale

Spec == Init /\ [][Next]_vars

SchemaInit ==
    /\ stock = [p \in Products |-> 0]
    /\ SaleIdle
    /\ SchemaIdle
    /\ settings = [s \in HomeShops |-> NoSettings]
    /\ shop_active = [s \in HomeShops |-> TRUE]
    /\ HomeIdle
    /\ AuxIdle

SchemaNext == Load

SchemaSpec == SchemaInit /\ [][SchemaNext]_vars

HomeInit ==
    /\ stock = [p \in Products |-> 0]
    /\ SaleIdle
    /\ SchemaIdle
    /\ settings \in [HomeShops -> SettingsRows \cup {NoSettings}]
    /\ shop_active \in [HomeShops -> BOOLEAN]
    /\ HomeIdle
    /\ AuxIdle

HomeNext == GetShopFromRequest

HomeSpec == HomeInit /\ [][HomeNext]_vars

\* index and select_shop of one user, on a table with no homepage settings
\* and on one where shop 1 has an active custom domain.
IndexSettings ==
    {[s \in HomeShops |-> NoSettings],
     [s \in HomeShops |->
        IF s = 1
        THEN [exists |-> TRUE, custom_domain |-> <<"store", "com">>,
              subdomain |-> None, is_active |-> TRUE]
        ELSE NoSettings]}

UserInit ==
    /\ stock = [p \in Products |-> 0]
    /\ SaleIdle
    /\ SchemaIdle
    /\ settings \in IndexSettings
    /\ shop_active = [s \in HomeShops |-> TRUE]
    /\ HomeIdle
    /\ user \in Users
    /\ session_shop_id = 0
    /\ page = NoPage
    /\ PricingIdle /\ CacheIdle /\ ConcIdle /\ PosIdle

UserNext ==
    \/ Index
    \/ SelectShop

UserSpec == UserInit /\ [][UserNext]_vars

\* index and select_shop of one user whose session is either empty or holds
\* the shop select_shop last wrote to both records; the shop row may since
\* be gone (id 3) or belong to another business, which is what the
\* clearing branches of index test for.
SessionInit ==
    /\ stock = [p \in Products |-> 0]
    /\ SaleIdle
    /\ SchemaIdle
    /\ settings \in IndexSettings
    /\ shop_active = [s \in HomeShops |-> TRUE]
    /\ HomeIdle
    /\ user \in Users
    /\ session_shop_id \in {0, user.shop_id}
    /\ page = NoPage
    /\ PricingIdle /\ CacheIdle /\ ConcIdle /\ PosIdle

SessionSpec == SessionInit /\ [][UserNext]_vars

\* The amounts of process_checkout.
PricingInit ==
    /\ stock = [p \in Products |-> 0]
    /\ SaleIdle
    /\ SchemaIdle
    /\ settings = [s \in HomeShops |-> NoSettings]
    /\ shop_active = [s \in HomeShops |-> TRUE]
    /\ HomeIdle
    /\ AuxIdle

PricingNext == PriceCheckout

PricingSpec == PricingInit /\ [][PricingNext]_vars

\* The cache of get_tax_rate, filled and overfilled.
CacheNext == GetTaxRate

CacheSpec == PricingInit /\ [][CacheNext]_vars

\* Checkouts of two shops that go on for ever, and a bounded number of
\* edits of their tax rates.
StaleNext ==
    \/ EditTax
    \/ \E shop_id \in Shops : CheckoutTaxRate(shop_id)

StaleSpec ==
    /\ PricingInit
    /\ [][StaleNext]_vars
    /\ \A shop_id \in Shops : WF_vars(CheckoutTaxRate(shop_id))

\* Two pay_now checkouts of product 1 in flight, on any stock.
ConcInit ==
    /\ stock = [p \in Products |-> 0]
    /\ SaleIdle
    /\ SchemaIdle
    /\ settings = [s \in HomeShops |-> NoSettings]
    /\ shop_active = [s \in HomeShops |-> TRUE]
    /\ HomeIdle
    /\ UserIdle /\ PricingIdle /\ CacheIdle /\ PosIdle
    /\ \E initial \in ConcStocks :
          conc = [NoConc EXCEPT !.stock = initial, !.initial = initial]

ConcNext == \E i \in ConcCalls : ConcLoad(i) \/ ConcCommit(i)

ConcSpec == ConcInit /\ [][ConcNext]_vars

\* The POS bootstrap and the checkouts made from it.
PosNext ==
    \/ GetPosData
    \/ CheckoutOffered

PosSpec == Init /\ [][PosNext]_vars

(***************************************************************************)
(* Properties.                                                             *)
(***************************************************************************)
RECURSIVE SumQuantity(_, _)
\* The summed quantity of the lines of cart_items that name product p.
SumQuantity(cart_items, p) ==
    IF cart_items = <<>> THEN 0
    ELSE (IF Head(cart_items).product_id = p
          THEN Head(cart_items).quantity ELSE 0)
         + SumQuantity(Tail(cart_items), p)

CheckoutAccepted == result.op = "checkout" /\ result.ok
CompletionAccepted == result.op = "complete" /\ result.ok
Unchanged == stock = before.stock /\ sales = before.sales

\* Every line of every persisted sale obeys the quantity rule.
QuantitiesInRule ==
    \A i \in 1..Len(sales) :
       \A k \in 1..Len(sales[i].cart_items) :
          validate_quantity(sales[i].cart_items[k].quantity) = "none"

\* The rows of the sale the last complete_pay_later_sale call named, as the
\* call found them.
NamedBefore ==
    {i \in 1..Len(before.sales) :
        /\ before.sales[i].id = result.sale_id
        /\ before.sales[i].shop_id = result.shop_id}

\* C1: after an accepted pay_now checkout, and after an accepted
\* complete_pay_later_sale, every product's stock is its stock before the
\* call minus the summed quantities of the sale's lines for that product
\* (stated for sales whose quantities obey the quantity rule).
C1_StockMinusCommittedQuantities ==
    QuantitiesInRule =>
    /\ (CheckoutAccepted /\ result.payment_mode = "pay_now") =>
          \A p \in Products :
             stock[p] = before.stock[p]
                - SumQuantity(sales[result.sale_id].cart_items, p)
    /\ CompletionAccepted =>
          \A p \in Products :
             stock[p] = before.stock[p]
                - SumQuantity(sales[result.sale_id].cart_items, p)

\* C2: stock is never negative; a pay_now checkout or a completion that
\* asks for more of a product than is in stock is rejected, and a call
\* rejected for insufficient stock leaves all stock as it was (the second
\* part stated for sales whose quantities obey the quantity rule).
C2_StockNeverNegative ==
    /\ \A p \in Products : stock[p] >= 0
    /\ (QuantitiesInRule
        /\ ((CheckoutAccepted /\ result.payment_mode = "pay_now")
            \/ CompletionAccepted)) =>
          \A p \in Products :
             SumQuantity(sales[result.sale_id].cart_items, p)
                <= before.stock[p]
    /\ result.error = "insufficient_stock" =>
          \A p \in Products : stock[p] = before.stock[p]

\* C3: a process_checkout that fails in the loop over the cart lines
\* (product not found or insufficient stock, at any line) leaves the sale
\* rows, their cart item rows and all stock as they were.
C3_FailedLineLeavesNothing ==
    (/\ result.op = "checkout"
     /\ result.error \in {"product_not_found", "insufficient_stock"}) =>
        /\ sales = before.sales
        /\ \A p \in Products : stock[p] = before.stock[p]

\* C3 witness: a pay_now checkout failed at its second line, after the
\* first line was staged with its stock update.
C3_Witness ==
    /\ result.op = "checkout"
    /\ result.error \in {"product_not_found", "insufficient_stock"}
    /\ result.payment_mode = "pay_now"
    /\ result.line = 2

\* C4: whenever process_checkout raises, sales, cart lines and stock are
\* what they were before the call; whenever the call persisted a sale, the
\* caller got the success result (stated for sales whose quantities obey
\* the quantity rule).
C4_ErrorMeansNothingPersisted ==
    QuantitiesInRule =>
    /\ (result.op = "checkout" /\ ~result.ok) => Unchanged
    /\ (result.op = "checkout" /\ Len(sales) > Len(before.sales)) => result.ok

\* C5: an accepted pay_now checkout yields a COMPLETED, paid sale; an
\* accepted pay_later checkout yields a PENDING, unpaid sale whose payment
\* method is pay_on_delivery.
C5_ModeDecidesStatus ==
    CheckoutAccepted =>
        LET sale == sales[result.sale_id]
        IN  /\ result.payment_mode \in {"pay_now", "pay_later"}
            /\ sale.payment_mode = result.payment_mode
            /\ result.payment_mode = "pay_now" =>
                  /\ result.status = "COMPLETED" /\ result.is_paid
                  /\ sale.status = "COMPLETED" /\ sale.is_paid
            /\ result.payment_mode = "pay_later" =>
                  /\ result.status = "PENDING" /\ ~result.is_paid
                  /\ sale.status = "PENDING" /\ ~sale.is_paid
                  /\ sale.payment_method = "pay_on_delivery"

\* C5 witness: an accepted pay_later checkout.
C5_Witness ==
    /\ CheckoutAccepted
    /\ result.payment_mode = "pay_later"
    /\ sales[result.sale_id].payment_method = "pay_on_delivery"

\* C6: with a non-empty valid cart, CheckoutSchema accepts exactly pay_now
\* with cash or mobile, and pay_later with no method or pay_on_delivery and
\* a customer name; an accepted pay_later payload leaves with
\* payment_method = pay_on_delivery.
C6_ValidCart ==
    /\ Len(payload.cart_items) >= 1
    /\ \A k \in 1..Len(payload.cart_items) :
          /\ payload.cart_items[k].quantity > 0
          /\ payload.cart_items[k].quantity <= 999

C6_ValidationPairing ==
    C6_ValidCart =>
        /\ loaded.valid <=>
              \/ /\ payload.payment_mode = "pay_now"
                 /\ payload.payment_method \in {"cash", "mobile"}
              \/ /\ payload.payment_mode = "pay_later"
                 /\ payload.payment_method \in {None, "pay_on_delivery"}
                 /\ payload.customer_name \notin {None, ""}
        /\ ~loaded.valid => loaded.error # "none"
        /\ (loaded.valid /\ payload.payment_mode = "pay_later") =>
              loaded.payment_method = "pay_on_delivery"

\* C6 witness: a pay_later payload without a method was accepted.
C6_Witness ==
    /\ C6_ValidCart
    /\ loaded.valid
    /\ payload.payment_mode = "pay_later"
    /\ payload.payment_method = None

\* C7: complete_pay_later_sale changes something only for a sale that is
\* in the named shop, unpaid and pay_on_delivery, and then leaves it paid
\* with the method used; a paid sale stays paid; so each pay_later sale is
\* completed at most once, a further attempt is rejected with nothing
\* changed, and a sale made by a pay_now checkout is never completed.
C7_CompletedAtMostOnce ==
    /\ (result.op = "complete" /\ (result.ok \/ ~Unchanged)) =>
          /\ NamedBefore # {}
          /\ \A i \in NamedBefore :
                /\ ~before.sales[i].is_paid
                /\ before.sales[i].payment_method = "pay_on_delivery"
                /\ before.sales[i].payment_mode = "pay_later"
                /\ sales[i].is_paid
                /\ sales[i].payment_method \in {"cash", "mobile"}
    /\ \A i \in 1..Len(before.sales) :
          before.sales[i].is_paid => sales[i].is_paid
    /\ \A i \in 1..Len(sales) :
          sales[i].payment_mode = "pay_now" =>
             sales[i].is_paid /\ sales[i].payment_method \in {"cash", "mobile"}

\* C7 witness: a second completion of a sale was rejected as already paid.
C7_Witness ==
    /\ result.op = "complete"
    /\ result.error = "already_paid"
    /\ \E i \in NamedBefore : before.sales[i].payment_mode = "pay_later"
    /\ Unchanged

\* C8: a pay_later checkout is never refused for stock and leaves all
\* stock as it was; the stock of the sale's products goes down by the
\* sale's quantities when complete_pay_later_sale is accepted for it, and a
\* completion that raises before its commit leaves the stock as it was.
C8_PayLaterDefersStock ==
    /\ (result.op = "checkout" /\ result.payment_mode = "pay_later") =>
          /\ result.error # "insufficient_stock"
          /\ \A p \in Products : stock[p] = before.stock[p]
    /\ CompletionAccepted =>
          \A p \in Products :
             stock[p] = before.stock[p]
                - SumQuantity(sales[result.sale_id].cart_items, p)
    /\ (result.op = "complete" /\ ~result.ok
            /\ result.error # "thread_start_failed") =>
          \A p \in Products : stock[p] = before.stock[p]

\* C8 witness: a pay_later checkout was accepted for more than the stock.
C8_Witness ==
    /\ CheckoutAccepted
    /\ result.payment_mode = "pay_later"
    /\ \E k \in 1..Len(sales[result.sale_id].cart_items) :
          LET item == sales[result.sale_id].cart_items[k]
          IN  item.quantity > stock[item.product_id]

\* C9: no persisted sale has a cart line whose quantity breaks the
\* quantity rule, no checkout raises a product's stock, and no line total
\* is negative.
C9_QuantityRuleInService ==
    /\ \A i \in 1..Len(sales) :
          \A k \in 1..Len(sales[i].cart_items) :
             /\ validate_quantity(sales[i].cart_items[k].quantity) = "none"
             /\ sales[i].cart_items[k].total_price >= 0
    /\ result.op = "checkout" =>
          \A p \in Products : stock[p] <= before.stock[p]

\* C10: get_shop_from_request returns a shop of the first rule that
\* matches: active custom domain equal to the host; else active subdomain
\* equal to the leftmost label of a dotted host, reserved labels excepted;
\* else the shop_id parameter of a shop with active settings; else the
\* shop_slug parameter of an active shop; else nothing.
C10_Custom(s) ==
    /\ settings[s].exists /\ settings[s].is_active
    /\ settings[s].custom_domain = request.host

C10_Sub(s) ==
    /\ Len(request.host) > 1
    /\ request.host[1] \notin {"www", "app", "admin", "api"}
    /\ settings[s].exists /\ settings[s].is_active
    /\ settings[s].subdomain = request.host[1]

C10_Id(s) ==
    /\ request.shop_id = s
    /\ settings[s].exists /\ settings[s].is_active

C10_Slug(s) == request.shop_slug = Slug[s] /\ shop_active[s]

C10_FirstMatchingRule ==
    IF \E s \in HomeShops : C10_Custom(s)
    THEN resolved \in HomeShops /\ C10_Custom(resolved)
    ELSE IF \E s \in HomeShops : C10_Sub(s)
    THEN resolved \in HomeShops /\ C10_Sub(resolved)
    ELSE IF \E s \in HomeShops : C10_Id(s)
    THEN resolved \in HomeShops /\ C10_Id(resolved)
    ELSE IF \E s \in HomeShops : C10_Slug(s)
    THEN resolved \in HomeShops /\ C10_Slug(resolved)
    ELSE resolved = 0

\* C10 witness: the host matched one shop's custom domain while shop_id
\* named another shop with active settings, and the custom domain won.
C10_Witness ==
    /\ resolved \in HomeShops
    /\ C10_Custom(resolved)
    /\ request.shop_id \in HomeShops \ {resolved}
    /\ C10_Id(request.shop_id)

\* C11: index renders the tenant's public custom homepage exactly when a
\* shop resolved from the request and the visitor is unauthenticated; an
\* authenticated visitor always gets home.html; an unauthenticated one
\* with no resolved shop gets home.html with current_shop and business
\* null and every flag false.
C11_CustomHomepageOnlyForAnonymous ==
    page.op = "index" =>
        /\ page.template = "homepage/custom_shop.html"
              <=> (resolved # 0 /\ ~user.authenticated)
        /\ page.template = "homepage/custom_shop.html"
              => page.context.current_shop = resolved
        /\ user.authenticated => page.template = "home.html"
        /\ (~user.authenticated /\ resolved = 0) =>
              /\ page.template = "home.html"
              /\ page.context.current_shop = 0
              /\ page.context.business = 0
              /\ ~page.context.is_super_admin
              /\ ~page.context.create_business
              /\ ~page.context.select_shop

\* C11 witness: an authenticated visitor's request resolved a shop and
\* home.html was rendered.
C11_Witness ==
    /\ page.op = "index"
    /\ user.authenticated
    /\ resolved # 0
    /\ page.template = "home.html"

\* C12: a select_shop call that rejects (caller unauthenticated, role not
\* admin, cashier or tenant owner, or caller's business_id set and
\* different from the shop's) leaves session['shop_id'] and the user's
\* shop_id as they were; a call that accepts sets both to the target shop.
C12_SelectShopWritesOnlyOnAccept ==
    page.op = "select_shop" =>
        LET caller_rejected ==
                \/ ~user.authenticated
                \/ user.role \notin {"admin", "cashier", "tenant"}
            other_business ==
                /\ page.target \in HomeShops
                /\ user.business_id # 0
                /\ ShopBusiness[page.target] # user.business_id
        IN  /\ (caller_rejected \/ other_business) => ~page.ok
            /\ ~page.ok =>
                  /\ session_shop_id = page.session_before
                  /\ user.shop_id = page.shop_id_before
                  /\ ~page.wrote
            /\ page.ok =>
                  /\ session_shop_id = page.target
                  /\ user.shop_id = page.target

\* C12 witness: a user who had selected a shop was refused a shop of
\* another business.
C12_Witness ==
    /\ page.op = "select_shop"
    /\ page.error = "other_business"
    /\ page.session_before # 0
    /\ page.session_before # page.target
    /\ session_shop_id = page.session_before

\* C19: for an authenticated tenant owner whose business exists, index
\* fills current_shop only with an existing shop of the tenant's business;
\* when the user's shop_id names no shop or a shop of another business,
\* index clears the shop_id with a commit, sets select_shop and leaves
\* current_shop null; an index call that finds no shop_id writes nothing,
\* so the call after a clear writes nothing.
C19_TenantOwner ==
    user.authenticated /\ user.role = "tenant" /\ user.business_id \in Businesses
    /\ page.op = "index"

C19_TenantShopOfOwnBusiness ==
    /\ C19_TenantOwner =>
          /\ page.context.current_shop # 0 =>
                /\ page.context.current_shop \in HomeShops
                /\ ShopBusiness[page.context.current_shop] = user.business_id
                /\ page.context.current_shop = page.shop_id_before
          /\ (/\ page.shop_id_before # 0
              /\ \/ page.shop_id_before \notin HomeShops
                 \/ ShopBusiness[page.shop_id_before] # user.business_id) =>
                /\ user.shop_id = 0
                /\ page.wrote
                /\ page.context.select_shop
                /\ page.context.current_shop = 0
    /\ (page.op = "index" /\ page.shop_id_before = 0) =>
          ~page.wrote /\ user.shop_id = 0
    /\ (page.op = "index" /\ page.wrote) => user.shop_id = 0

\* C19 witness: the tenant's shop_id named a shop of another business and
\* was cleared.
C19_Witness ==
    /\ C19_TenantOwner
    /\ page.shop_id_before \in HomeShops
    /\ ShopBusiness[page.shop_id_before] # user.business_id
    /\ user.shop_id = 0
    /\ page.wrote

\* C13: for every positive line amount a = quantity x unit price, the line
\* total r that round_up_to_nearest_five gives is a multiple of five, at
\* least a and less than five above a; the subtotal is the sum of the
\* line totals, each rounded on its own.
C13_LineAmount(k) == pricing.cart[k].quantity * pricing.cart[k].price

C13_SumOfLines ==
    IF Len(pricing.cart_item_data) = 0 THEN 0
    ELSE IF Len(pricing.cart_item_data) = 1
    THEN pricing.cart_item_data[1].total_price
    ELSE IF Len(pricing.cart_item_data) = 2
    THEN pricing.cart_item_data[1].total_price
            + pricing.cart_item_data[2].total_price
    ELSE pricing.cart_item_data[1].total_price
            + pricing.cart_item_data[2].total_price
            + pricing.cart_item_data[3].total_price

C13_RoundUpPerLine ==
    /\ Len(pricing.cart_item_data) = Len(pricing.cart)
    /\ \A k \in 1..Len(pricing.cart) :
          C13_LineAmount(k) > 0 =>
             LET a == C13_LineAmount(k)
                 r == pricing.cart_item_data[k].total_price
             IN  /\ r % 500 = 0
                 /\ r >= a
                 /\ r - 500 < a
    /\ pricing.subtotal = C13_SumOfLines

\* C13 witness: a cart of two lines whose subtotal is above what rounding
\* the summed amounts would give (0.01 twice: 10.00, not 5.00).
C13_Witness ==
    /\ Len(pricing.cart) = 2
    /\ C13_LineAmount(1) % 500 # 0
    /\ pricing.subtotal >= C13_LineAmount(1) + C13_LineAmount(2) + 500

\* C14: with rounded subtotal S, accumulated cost C and tax rate R, the
\* checkout computes tax = S x R rounded to the cent, total = S + tax and
\* profit = S - C, whatever R is (S = 100.00, C = 60.00, R = 0.16 give
\* tax 16.00, total 116.00, profit 40.00).  The cost is the sum over the
\* lines of quantity x cost price, not rounded.
C14_Cost ==
    IF Len(pricing.cart) = 0 THEN 0
    ELSE IF Len(pricing.cart) = 1
    THEN pricing.cart[1].quantity * CostPrice[1]
    ELSE IF Len(pricing.cart) = 2
    THEN (pricing.cart[1].quantity + pricing.cart[2].quantity) * CostPrice[1]
    ELSE (pricing.cart[1].quantity + pricing.cart[2].quantity
            + pricing.cart[3].quantity) * CostPrice[1]

C14_TaxTotalProfit ==
    /\ 2 * Abs(10000 * pricing.tax_amount - pricing.subtotal * pricing.tax_rate)
          <= 10000
    /\ pricing.total = pricing.subtotal + pricing.tax_amount
    /\ pricing.total_cost = C14_Cost
    /\ pricing.profit = pricing.subtotal - C14_Cost
    /\ (pricing.subtotal = 10000 /\ pricing.total_cost = 6000
            /\ pricing.tax_rate = 1600) =>
          /\ pricing.tax_amount = 1600
          /\ pricing.total = 11600
          /\ pricing.profit = 4000

\* C14 witness: the example of the claim, S = 100.00, C = 60.00, R = 0.16.
C14_Witness ==
    /\ pricing.subtotal = 10000
    /\ pricing.total_cost = 6000
    /\ pricing.tax_rate = 1600
    /\ pricing.profit = 4000

\* C15: the cache of get_tax_rate never holds more than 32 shop ids; a
\* call for a shop id that is not cached, made when 32 are, drops exactly
\* the entry whose last access (hit or insert) is the oldest and keeps all
\* the others; any other call drops nothing.
C15_Cached == CachedKeys(lookup.cache_before)

C15_LeastRecentlyAccessed ==
    CHOOSE k \in C15_Cached :
        \A j \in C15_Cached : lookup.last_access[k] <= lookup.last_access[j]

C15_CacheBound ==
    /\ Len(tax_cache) <= 32
    /\ Cardinality(CachedKeys(tax_cache)) = Len(tax_cache)
    /\ lookup.op = "get_tax_rate" =>
          IF ~lookup.hit /\ Len(lookup.cache_before) = 32
          THEN /\ lookup.shop_id \notin C15_Cached
               /\ CachedKeys(tax_cache) =
                     (C15_Cached \ {C15_LeastRecentlyAccessed})
                        \cup {lookup.shop_id}
          ELSE CachedKeys(tax_cache) = C15_Cached \cup {lookup.shop_id}

\* C15 witness: shop 1, the first one cached, was looked up again before
\* the cache overflowed, and the 33rd shop id drove out shop 2.
C15_Witness ==
    /\ lookup.op = "get_tax_rate"
    /\ ~lookup.hit
    /\ Len(lookup.cache_before) = 32
    /\ lookup.shop_id = 33
    /\ 1 \in CachedKeys(tax_cache)
    /\ 2 \notin CachedKeys(tax_cache)

\* C16: a run_checkout_tasks thread is started only by an accepted pay_now
\* checkout or an accepted complete_pay_later_sale, for the sale that call
\* committed as paid; a pay_later checkout and a call that raises start
\* none; so every started thread names a persisted, paid sale.
C16_TaskOnlyAfterPaidCommit ==
    /\ \A t \in 1..Len(threads) :
          /\ threads[t] \in 1..Len(sales)
          /\ sales[threads[t]].id = threads[t]
          /\ sales[threads[t]].is_paid
    /\ threads # before.threads =>
          /\ result.ok
          /\ \/ result.op = "checkout" /\ result.payment_mode = "pay_now"
             \/ result.op = "complete"
          /\ threads = Append(before.threads, result.sale_id)
          /\ sales[result.sale_id].is_paid
    /\ (result.op = "checkout" /\ result.payment_mode = "pay_later") =>
          threads = before.threads
    /\ (result.op # "none" /\ ~result.ok) => threads = before.threads

\* C16 witness: a pay_later sale was completed and its thread started.
C16_Witness ==
    /\ result.op = "complete"
    /\ result.ok
    /\ threads = <<result.sale_id>>
    /\ sales[result.sale_id].payment_mode = "pay_later"

\* C17: when two pay_now checkouts of one product both read the stock
\* before either writes, both commit, and the stock ends at the value the
\* later writer staged: the stock both read minus that call's quantity
\* alone, even when the two quantities together exceed the stock read.
C17_BothCommitted ==
    /\ \A i \in ConcCalls : conc.calls[i].pc = "committed"
    /\ \A i \in ConcCalls : conc.calls[i].read_stock = conc.initial

C17_LostDeduction ==
    /\ C17_BothCommitted =>
          /\ conc.last \in ConcCalls
          /\ conc.stock = conc.initial - conc.calls[conc.last].quantity
          /\ \A i \in ConcCalls : conc.calls[i].quantity <= conc.initial
    /\ (conc.overlap /\ \A i \in ConcCalls : conc.calls[i].pc = "committed")
          => C17_BothCommitted
    /\ conc.stock >= 0

\* C17 witness: both calls committed, their quantities together exceed
\* the stock there was, and one deduction is lost.
C17_Witness ==
    /\ C17_BothCommitted
    /\ conc.calls[1].quantity + conc.calls[2].quantity > conc.initial
    /\ conc.stock =
          conc.initial - conc.calls[1].quantity - conc.calls[2].quantity
             + conc.calls[3 - conc.last].quantity

\* C18: the tax-rate cache is eventually consistent with tax edits: with
\* checkouts of every shop going on, from some point on every checkout
\* computes tax with the rate of the shop's active tax record.
C18_EventuallyFreshRate ==
    <>[](lookup.op = "checkout" => lookup.value = tax_db[lookup.shop_id])

\* C18, the part that holds: a checkout after an edit may still use the
\* rate that was cached before it.
C18_StaleAfterEdit ==
    /\ lookup.op = "checkout"
    /\ lookup.hit
    /\ lookup.edits > 0
    /\ lookup.value # tax_db[lookup.shop_id]

\* C20: every payment method get_pos_data offers for a shop is accepted by
\* process_checkout as the method of a pay_now sale.
C20_OfferedMethodsAccepted ==
    (/\ result.op = "checkout"
     /\ chosen # None
     /\ chosen \in pos_data.payment_methods)
       => result.error # "invalid_method"

\* C20, the offered method that is accepted: a pay_now sale paid in cash
\* is committed.
C20_OfferedCashAccepted ==
    /\ result.op = "checkout"
    /\ result.ok
    /\ chosen = "cash"
    /\ chosen \in pos_data.payment_methods

\* C21: after any sequence of process_checkout and complete_pay_later_sale
\* calls, every persisted sale that is not paid has the method
\* pay_on_delivery, every paid sale has the method cash or mobile, and a
\* sale that was paid before the last call is still paid after it.
C21_PaidMethodConsistent ==
    /\ \A i \in 1..Len(sales) :
          /\ ~sales[i].is_paid => sales[i].payment_method = "pay_on_delivery"
          /\ sales[i].is_paid => sales[i].payment_method \in {"cash", "mobile"}
    /\ \A i \in 1..Len(before.sales) :
          before.sales[i].is_paid =>
             /\ i <= Len(sales)
             /\ sales[i].id = before.sales[i].id
             /\ sales[i].is_paid

\* C21 witness: a pay_later sale, unpaid with pay_on_delivery before the
\* call, is completed and is now paid with the method used.
C21_Witness ==
    /\ result.op = "complete"
    /\ result.ok
    /\ \E i \in 1..Len(before.sales) :
          /\ before.sales[i].id = result.sale_id
          /\ ~before.sales[i].is_paid
          /\ before.sales[i].payment_method = "pay_on_delivery"
          /\ sales[i].is_paid
          /\ sales[i].payment_method \in {"cash", "mobile"}

====
